---- MODULE Spec2Model ----
(***************************************************************************)
(* Model of the udup server's leader lifecycle (internal/server/leader.go) *)
(* and scheduling worker (internal/server/worker.go).                      *)
(*                                                                         *)
(* Leader side: monitorLeadership reads isLeader edges and spawns one      *)
(* leaderLoop goroutine per true edge, handing it a stop channel; the loop *)
(* runs Barrier, establishLeadership, reconcile and then waits in a select *)
(* on stopCh, shutdownCh, the reconcile interval and reconcileCh; its      *)
(* deferred revokeLeadership runs when it returns.                         *)
(*                                                                         *)
(* Server.Shutdown and Job.Run (agent/job.go) are followed call by call:   *)
(* each takes its mutex, checks and acts, and releases it on return.       *)
(***************************************************************************)
EXTENDS Integers, Sequences, FiniteSets, TLC

(* ---------------------------- bounds ----------------------------------- *)
\* leader loops (true edges) that monitorLeadership may spawn
MaxEpochs == 2
\* membership changes in a reconciliation run
MaxMemberEvents == 2
\* capacity of the buffered reconcile channel
ChanCap == 1
\* scheduling workers
NumWorkers == 2
\* consecutive backoffErr calls of a worker without a reset
MaxBackoffs == 6
\* highest raft index (applied index, ModifyIndex, RefreshIndex)
MaxIndex == 2
\* Server.Shutdown calls (NewServer's own, the agent's, signal handlers)
MaxShutdownCalls == 3
\* concurrent Job.Run calls on one Job object
MaxRunCalls == 2

(* --------------------------- program constants -------------------------- *)
\* backoffBaseline and backoffLimit, in milliseconds
backoffBaseline == 20
backoffLimit == 5000
\* job statuses (iota)
Success == 0
Running == 1
Failed == 2
PartialyFailed == 3

(* ------------------------- configuration ------------------------------- *)
\* s.config.Region of the local server
Region == "r1"

\* fmt.Sprintf("%s.%s", s.config.NodeName, s.config.Region), NodeName "self"
LocalName == "self.r1"

\* The gossip members that may appear, with the tags isUdupServer parses.
\* n2 is a bootstrap server of the local region, n3 a bootstrap server of
\* another region, n4 a server that came up on n1's address under a new
\* name, c1 a client (not a server).
Catalog ==
  [n \in {"self.r1", "n1.r1", "n2.r1", "n3.r2", "n4.r1", "c1.r1"} |->
     CASE n = "self.r1" -> [role |-> "server", region |-> "r1", bootstrap |-> FALSE, addr |-> "a0"]
       [] n = "n1.r1"   -> [role |-> "server", region |-> "r1", bootstrap |-> FALSE, addr |-> "a1"]
       [] n = "n2.r1"   -> [role |-> "server", region |-> "r1", bootstrap |-> TRUE,  addr |-> "a2"]
       [] n = "n3.r2"   -> [role |-> "server", region |-> "r2", bootstrap |-> TRUE,  addr |-> "a3"]
       [] n = "n4.r1"   -> [role |-> "server", region |-> "r1", bootstrap |-> FALSE, addr |-> "a1"]
       [] n = "c1.r1"   -> [role |-> "client", region |-> "r1", bootstrap |-> FALSE, addr |-> "a4"]]

Names == DOMAIN Catalog
Others == Names \ {LocalName}
Addrs == {Catalog[n].addr : n \in Names}

\* serf member statuses; "none" is a member that never joined and "reap" a
\* member erased from the member list (StatusReap exists only in events)
Listed == {"alive", "failed", "left"}
Statuses == Listed \cup {"none", "reap"}

Epochs == 1..MaxEpochs

VARIABLES
  stopCh,            \* monitorLeadership: epoch of the open stop channel, 0 = nil
  spawned,           \* number of leader loops spawned so far
  lastEdge,          \* last isLeader value read from leaderCh
  monitorDone,       \* monitorLeadership has returned
  pc,                \* leaderLoop: position of each loop
  closed,            \* leaderLoop: its stopCh has been closed
  establishedLeader, \* leaderLoop local
  rchSet,            \* leaderLoop local: reconcileCh # nil
  interval,          \* leaderLoop local: "pending" or "fired" time.After channel
  barrierErr,        \* leaderLoop local: the last Barrier returned an error
  planQueueEnabled,
  brokerEnabled,
  shutdown,          \* s.shutdown / shutdownCh closed
  members,           \* serf membership: name -> status
  peers,             \* raft peer set (addresses)
  reconcileCh,       \* s.reconcileCh: buffered channel of member records
  eventBudget,       \* membership changes still to happen
  last,              \* the raft peer calls of the most recent step
  appliedIndex,      \* s.raft.AppliedIndex()
  wpc,               \* Worker.run: position of each worker
  weval,             \* the evaluation the worker holds (ModifyIndex; 0 ID = none)
  failures,          \* Worker.failures
  windex,            \* waitForIndex: the index waited for
  wcaller,           \* waitForIndex: called from "run" or from "SubmitPlan"
  wsnap,             \* applied index of the snapshot the scheduler works on
  wbackoff,          \* backoffErr: the interval being slept, in ms (0 = awake)
  wcalls,            \* backoffErr calls since the last backoffReset
  werr,              \* run: the error of waitForIndex / invokeScheduler
  wrpc,              \* the RPC the latest step issued, and the worker issuing it
  wplan,             \* what the latest SubmitPlan returned to the scheduler
  ready,             \* broker: pending evaluations, in dequeue order
  unack,             \* broker: outstanding deliveries (evaluation, worker)
  waiting,           \* broker: workers blocked in Dequeue
  deferred,          \* broker: unacked evaluations enqueued again meanwhile
  built,             \* Server: which of s.raft, s.raftStore, s.fsm are non-nil
  shutdownLock,      \* Server.shutdownLock: the Shutdown call holding it, 0 = free
  spc,               \* Server.Shutdown: position of each call
  teardown,          \* how often shutdownCh, raft, raftStore, fsm were closed
  job,               \* Job: Agent (non-nil), Disabled, Concurrency
  stored,            \* the job as Agent.store.GetJob returns it
  running,           \* Job.running: the Run call holding the mutex, 0 = free
  jpc                \* Job.Run: position of each call

leaderVars == <<stopCh, spawned, lastEdge, monitorDone, pc, closed,
                establishedLeader, rchSet, interval, barrierErr,
                planQueueEnabled, brokerEnabled, shutdown, members, peers,
                reconcileCh, eventBudget, last>>

\* the leader state but for the record of the latest step
lifecycleVars == <<stopCh, spawned, lastEdge, monitorDone, pc, closed,
                   establishedLeader, rchSet, interval, barrierErr,
                   planQueueEnabled, brokerEnabled, shutdown, members, peers,
                   reconcileCh, eventBudget>>

workerVars == <<appliedIndex, wpc, weval, failures, windex, wcaller, wsnap,
                wbackoff, wcalls, werr, wplan>>

brokerVars == <<ready, unack, waiting, deferred>>

serverVars == <<built, shutdownLock, spc, teardown>>

jobVars == <<job, stored, running, jpc>>

vars == <<leaderVars, workerVars, brokerVars, wrpc, serverVars, jobVars>>

Workers == 1..NumWorkers
ShutdownCalls == 1..MaxShutdownCalls
RunCalls == 1..MaxRunCalls
Indexes == 0..MaxIndex
NoEval == [ID |-> 0, ModifyIndex |-> 0]
\* The evaluations that may be enqueued, with their scheduler class and
\* priority: two of the same priority and one of a higher priority.
EvalCatalog ==
  [e \in 1..3 |->
     CASE e = 1 -> [Type |-> "service", Priority |-> 50]
       [] e = 2 -> [Type |-> "service", Priority |-> 50]
       [] e = 3 -> [Type |-> "service", Priority |-> 70]]

EvalIds == DOMAIN EvalCatalog
\* the evaluations Eval.Dequeue may hand out
Evals == [ID : EvalIds, ModifyIndex : Indexes]

\* `last` after a step that ran no reconciliation; a step that did records
\* the members it was given, how many it visited, the AddPeer/RemovePeer
\* calls it issued with raft's answers, and whether it returned an error
NoLast == [act |-> "none", loop |-> 0, ops |-> <<>>,
           err |-> FALSE, given |-> {}, visited |-> 0, before |-> {}]

Range(s) == {s[i] : i \in 1..Len(s)}

(* ----------------------- membership and raft ---------------------------- *)
\* s.serf.Members(): the listed members as records
Members(ms) == {[Name |-> n, Status |-> ms[n]] : n \in {x \in DOMAIN ms : ms[x] \in Listed}}

\* the slices Members() may return: every order of the listed members
RECURSIVE Orders(_)
Orders(S) ==
  IF S = {} THEN {<<>>}
  ELSE UNION {{<<x>> \o rest : rest \in Orders(S \ {x})} : x \in S}

\* isUdupServer(member): whether the member is a server, and its parts
isUdupServer(m) ==
  [valid |-> Catalog[m.Name].role = "server",
   parts |-> [Region |-> Catalog[m.Name].region,
              Bootstrap |-> Catalog[m.Name].bootstrap,
              Addr |-> Catalog[m.Name].addr]]

\* s.raft.AddPeer(addr).Error()
AddPeer(ps, addr, fail) ==
  IF fail THEN [peers |-> ps, err |-> "ErrOther"]
  ELSE IF addr \in ps THEN [peers |-> ps, err |-> "ErrKnownPeer"]
  ELSE [peers |-> ps \cup {addr}, err |-> "nil"]

\* s.raft.RemovePeer(addr).Error()
RemovePeer(ps, addr, fail) ==
  IF fail THEN [peers |-> ps, err |-> "ErrOther"]
  ELSE IF addr \notin ps THEN [peers |-> ps, err |-> "ErrUnknownPeer"]
  ELSE [peers |-> ps \ {addr}, err |-> "nil"]

\* an addRaftPeer without the check for a second bootstrap node
addRaftPeerNoBootstrapCheck(ps, mems, m, parts, fail) ==
  LET future == AddPeer(ps, parts.Addr, fail) IN
  [peers |-> future.peers,
   err |-> (future.err # "nil" /\ future.err # "ErrKnownPeer"),
   ops |-> <<[op |-> "AddPeer", name |-> m.Name, addr |-> parts.Addr,
              answer |-> future.err]>>]

\* addRaftPeer(m, parts): mems is what s.serf.Members() returns now
addRaftPeer(ps, mems, m, parts, fail) ==
  IF parts.Bootstrap
     /\ \E member \in mems : /\ isUdupServer(member).valid
                             /\ member.Name # m.Name
                             /\ isUdupServer(member).parts.Bootstrap
  THEN [peers |-> ps, err |-> FALSE, ops |-> <<>>]
  ELSE LET future == AddPeer(ps, parts.Addr, fail) IN
       [peers |-> future.peers,
        err |-> (future.err # "nil" /\ future.err # "ErrKnownPeer"),
        ops |-> <<[op |-> "AddPeer", name |-> m.Name, addr |-> parts.Addr,
                   answer |-> future.err]>>]

\* a removeRaftPeer that returns ErrUnknownPeer as an error
removeRaftPeerStrict(ps, m, parts, fail) ==
  LET future == RemovePeer(ps, parts.Addr, fail) IN
  [peers |-> future.peers,
   err |-> (future.err # "nil"),
   ops |-> <<[op |-> "RemovePeer", name |-> m.Name, addr |-> parts.Addr,
              answer |-> future.err]>>]

\* removeRaftPeer(m, parts)
removeRaftPeer(ps, m, parts, fail) ==
  LET future == RemovePeer(ps, parts.Addr, fail) IN
  [peers |-> future.peers,
   err |-> (future.err # "nil" /\ future.err # "ErrUnknownPeer"),
   ops |-> <<[op |-> "RemovePeer", name |-> m.Name, addr |-> parts.Addr,
              answer |-> future.err]>>]

\* a reconcileMember that handles alive members only and never removes
reconcileMemberAliveOnly(ps, mems, m, fail) ==
  LET u == isUdupServer(m) IN
  IF ~u.valid \/ u.parts.Region # Region
  THEN [peers |-> ps, err |-> FALSE, ops |-> <<>>]
  ELSE IF m.Name = LocalName
  THEN [peers |-> ps, err |-> FALSE, ops |-> <<>>]
  ELSE IF m.Status = "alive" THEN addRaftPeer(ps, mems, m, u.parts, fail)
  ELSE [peers |-> ps, err |-> FALSE, ops |-> <<>>]

\* a reconcileMember that does not skip the local node
reconcileMemberWithSelf(ps, mems, m, fail) ==
  LET u == isUdupServer(m) IN
  IF ~u.valid \/ u.parts.Region # Region
  THEN [peers |-> ps, err |-> FALSE, ops |-> <<>>]
  ELSE IF m.Status = "alive" THEN addRaftPeer(ps, mems, m, u.parts, fail)
  ELSE IF m.Status \in {"left", "reap"} THEN removeRaftPeer(ps, m, u.parts, fail)
  ELSE [peers |-> ps, err |-> FALSE, ops |-> <<>>]

\* reconcileMember(member)
reconcileMember(ps, mems, m, fail) ==
  LET u == isUdupServer(m) IN
  IF ~u.valid \/ u.parts.Region # Region
  THEN [peers |-> ps, err |-> FALSE, ops |-> <<>>]
  ELSE IF m.Name = LocalName
  THEN [peers |-> ps, err |-> FALSE, ops |-> <<>>]
  ELSE IF m.Status = "alive" THEN addRaftPeer(ps, mems, m, u.parts, fail)
  ELSE IF m.Status \in {"left", "reap"} THEN removeRaftPeer(ps, m, u.parts, fail)
  ELSE [peers |-> ps, err |-> FALSE, ops |-> <<>>]

\* the loop of reconcile() from position i of the slice; failAt is the
\* position whose raft call fails (0: none)
RECURSIVE reconcileFrom(_, _, _, _, _)
reconcileFrom(ps, list, i, failAt, ops) ==
  IF i > Len(list)
  THEN [peers |-> ps, err |-> FALSE, ops |-> ops, visited |-> Len(list)]
  ELSE LET r == reconcileMember(ps, Range(list), list[i], i = failAt) IN
       IF r.err
       THEN [peers |-> r.peers, err |-> TRUE, ops |-> ops \o r.ops, visited |-> i]
       ELSE reconcileFrom(r.peers, list, i + 1, failAt, ops \o r.ops)

\* reconcile()
reconcile(ps, list, failAt) == reconcileFrom(ps, list, 1, failAt, <<>>)

(* --------------------------- initial states ----------------------------- *)
\* the gossip pools of the runs: the members that may join
LifecyclePool == {LocalName, "n1.r1"}
ReconPool == Names
StablePool == Names \ {"c1.r1"}

(* -------------------------------- worker -------------------------------- *)
\* 2^n
RECURSIVE Pow2(_)
Pow2(n) == IF n = 0 THEN 1 ELSE 2 * Pow2(n - 1)

\* a backoff that doubles instead of quadrupling
backoffOfDoubling(f) == Pow2(f) * backoffBaseline

\* backoffErr: backoff := (1 << (2 * w.failures)) * backoffBaseline
backoffOf(f) == Pow2(2 * f) * backoffBaseline

\* backoffErr: the interval slept; the limit replaces a longer backoff
backoffSlept(f) == IF backoffOf(f) > backoffLimit THEN backoffLimit ELSE backoffOf(f)

\* a backoffErr that counts every call
failuresAfterUnbounded(f) == f + 1

\* backoffErr: the counter after the call; it grows only below the limit
failuresAfter(f) == IF backoffOf(f) > backoffLimit THEN f ELSE f + 1

\* a waitForIndex that takes the state to be fresh one index too early
indexReachedOffByOne(index, applied) == index <= applied + 1

\* waitForIndex: index <= appliedIndex
indexReached(index, applied) == index <= applied

\* the latest step issued no RPC
NoRpc == [worker |-> 0, call |-> "none", id |-> 0]

\* SubmitPlan has not returned to the scheduler
NoPlan == [refresh |-> 0, result |-> FALSE, state |-> -1, err |-> "none"]

\* the raft log applies one more entry to the FSM
Apply ==
  /\ appliedIndex < MaxIndex
  /\ appliedIndex' = appliedIndex + 1
  /\ UNCHANGED <<serverVars, jobVars>>
  /\ wrpc' = NoRpc
  /\ UNCHANGED <<wpc, weval, failures, windex, wcaller, wsnap, wbackoff,
                 wcalls, werr, wplan>>
  /\ UNCHANGED <<leaderVars, brokerVars>>

\* dequeueEvaluation, REQ: the Eval.Dequeue RPC fails; backoffErr computes
\* the backoff and starts to sleep
dequeueFails(w) ==
  /\ wpc[w] = "REQ"
  /\ wcalls[w] < MaxBackoffs
  /\ wbackoff' = [wbackoff EXCEPT ![w] = backoffSlept(failures[w])]
  /\ failures' = [failures EXCEPT ![w] = failuresAfter(failures[w])]
  /\ wcalls' = [wcalls EXCEPT ![w] = @ + 1]
  /\ wpc' = [wpc EXCEPT ![w] = "sleepREQ"]
  /\ UNCHANGED <<serverVars, jobVars>>
  /\ wrpc' = [worker |-> w, call |-> "Eval.Dequeue", id |-> 0]
  /\ UNCHANGED <<appliedIndex, weval, windex, wcaller, wsnap, werr, wplan>>
  /\ UNCHANGED leaderVars

\* dequeueEvaluation: the RPC returns no evaluation; backoffReset, then the
\* IsShutdown check
dequeueEmpty(w) ==
  /\ wpc[w] = "REQ"
  /\ failures' = [failures EXCEPT ![w] = 0]
  /\ wcalls' = [wcalls EXCEPT ![w] = 0]
  /\ wpc' = [wpc EXCEPT ![w] = IF shutdown THEN "exit" ELSE "REQ"]
  /\ UNCHANGED <<serverVars, jobVars>>
  /\ wrpc' = [worker |-> w, call |-> "Eval.Dequeue", id |-> 0]
  /\ UNCHANGED <<appliedIndex, weval, windex, wcaller, wsnap, wbackoff, werr,
                 wplan>>
  /\ UNCHANGED leaderVars

\* dequeueEvaluation: the RPC returns an evaluation; backoffReset
dequeueEvaluation(w, eval) ==
  /\ wpc[w] = "REQ"
  /\ failures' = [failures EXCEPT ![w] = 0]
  /\ wcalls' = [wcalls EXCEPT ![w] = 0]
  /\ weval' = [weval EXCEPT ![w] = eval]
  /\ wpc' = [wpc EXCEPT ![w] = "dequeued"]
  /\ UNCHANGED <<serverVars, jobVars>>
  /\ wrpc' = [worker |-> w, call |-> "Eval.Dequeue", id |-> eval.ID]
  /\ werr' = [werr EXCEPT ![w] = "nil"]
  /\ UNCHANGED <<appliedIndex, windex, wcaller, wsnap, wbackoff, wplan>>
  /\ UNCHANGED leaderVars

\* a backoffErr that sleeps the whole interval whatever shutdownCh does
backoffElapsedDeaf(w) ==
  /\ wpc[w] \in {"sleepREQ", "sleepCHECK"}
  /\ wpc' = [wpc EXCEPT ![w] = IF wpc[w] = "sleepREQ" THEN "REQ" ELSE "CHECK"]
  /\ wbackoff' = [wbackoff EXCEPT ![w] = 0]
  /\ UNCHANGED <<serverVars, jobVars>>
  /\ wrpc' = NoRpc
  /\ UNCHANGED <<appliedIndex, weval, failures, windex, wcaller, wsnap,
                 wcalls, werr, wplan>>
  /\ UNCHANGED <<leaderVars, brokerVars>>

\* backoffErr, case <-time.After(backoff): return false; the caller
\* retries.  The goroutine blocked in the select is woken by the channel
\* that becomes ready first, so the timer wins only while shutdownCh is
\* open
backoffElapsed(w) ==
  /\ wpc[w] \in {"sleepREQ", "sleepCHECK"}
  /\ ~shutdown
  /\ wpc' = [wpc EXCEPT ![w] = IF wpc[w] = "sleepREQ" THEN "REQ" ELSE "CHECK"]
  /\ wbackoff' = [wbackoff EXCEPT ![w] = 0]
  /\ UNCHANGED <<serverVars, jobVars>>
  /\ wrpc' = NoRpc
  /\ UNCHANGED <<appliedIndex, weval, failures, windex, wcaller, wsnap,
                 wcalls, werr, wplan>>
  /\ UNCHANGED <<leaderVars, brokerVars>>

\* what SubmitPlan returns when its waitForIndex fails
PlanWaitFailed(w) == [wplan[w] EXCEPT !.err = "wait"]

\* backoffErr, case <-w.srv.shutdownCh: return true.  dequeueEvaluation
\* returns (nil, true) and run exits; waitForIndex returns an error, on
\* which run nacks and continues and SubmitPlan returns the error to the
\* scheduler
backoffShutdown(w) ==
  /\ wpc[w] \in {"sleepREQ", "sleepCHECK"}
  /\ shutdown
  /\ wpc' = [wpc EXCEPT ![w] =
        IF wpc[w] = "sleepREQ" THEN "exit"
        ELSE IF wcaller[w] = "run" THEN "nack" ELSE "process"]
  /\ werr' = [werr EXCEPT ![w] =
        IF wpc[w] = "sleepCHECK" /\ wcaller[w] = "run" THEN "shutdownSync" ELSE @]
  /\ wplan' = [wplan EXCEPT ![w] =
        IF wpc[w] = "sleepCHECK" /\ wcaller[w] = "SubmitPlan"
        THEN PlanWaitFailed(w) ELSE @]
  /\ wbackoff' = [wbackoff EXCEPT ![w] = 0]
  /\ UNCHANGED <<serverVars, jobVars>>
  /\ wrpc' = NoRpc
  /\ UNCHANGED <<appliedIndex, weval, failures, windex, wcaller, wsnap, wcalls>>
  /\ UNCHANGED <<leaderVars, brokerVars>>

\* run: the IsShutdown check after the dequeue; on shutdown the worker
\* nacks and returns, else it calls waitForIndex(eval.ModifyIndex)
checkShutdown(w) ==
  /\ wpc[w] = "dequeued"
  /\ IF shutdown
     THEN /\ wpc' = [wpc EXCEPT ![w] = "nackExit"]
          /\ UNCHANGED <<windex, wcaller>>
     ELSE /\ wpc' = [wpc EXCEPT ![w] = "CHECK"]
          /\ windex' = [windex EXCEPT ![w] = weval[w].ModifyIndex]
          /\ wcaller' = [wcaller EXCEPT ![w] = "run"]
  /\ UNCHANGED <<serverVars, jobVars>>
  /\ wrpc' = NoRpc
  /\ UNCHANGED <<appliedIndex, weval, failures, wsnap, wbackoff, wcalls, werr,
                 wplan>>
  /\ UNCHANGED <<leaderVars, brokerVars>>

\* waitForIndex, CHECK: the index is reached: backoffReset, return nil.
\* run goes on to invokeScheduler; SubmitPlan snapshots the state and
\* returns the result with it (a failing snapshot returns only an error)
waitForIndex(w, snapOk) ==
  /\ wpc[w] = "CHECK"
  /\ indexReached(windex[w], appliedIndex)
  /\ failures' = [failures EXCEPT ![w] = 0]
  /\ wcalls' = [wcalls EXCEPT ![w] = 0]
  /\ IF wcaller[w] = "run"
     THEN /\ wpc' = [wpc EXCEPT ![w] = "snapshot"]
          /\ UNCHANGED <<wsnap, wplan>>
     ELSE /\ wpc' = [wpc EXCEPT ![w] = "process"]
          /\ wsnap' = [wsnap EXCEPT ![w] = IF snapOk THEN appliedIndex ELSE @]
          /\ wplan' = [wplan EXCEPT ![w] =
                IF snapOk
                THEN [@ EXCEPT !.result = TRUE, !.state = appliedIndex, !.err = "nil"]
                ELSE [@ EXCEPT !.err = "snapshot"]]
  /\ UNCHANGED <<serverVars, jobVars>>
  /\ wrpc' = NoRpc
  /\ UNCHANGED <<appliedIndex, weval, windex, wcaller, wbackoff, werr>>
  /\ UNCHANGED <<leaderVars, brokerVars>>

\* waitForIndex: the index is not reached and the sync limit has passed:
\* return an error; run nacks and continues, SubmitPlan returns the error
waitForIndexTimeout(w) ==
  /\ wpc[w] = "CHECK"
  /\ ~indexReached(windex[w], appliedIndex)
  /\ wpc' = [wpc EXCEPT ![w] = IF wcaller[w] = "run" THEN "nack" ELSE "process"]
  /\ werr' = [werr EXCEPT ![w] = IF wcaller[w] = "run" THEN "sync" ELSE @]
  /\ wplan' = [wplan EXCEPT ![w] =
        IF wcaller[w] = "SubmitPlan" THEN PlanWaitFailed(w) ELSE @]
  /\ UNCHANGED <<serverVars, jobVars>>
  /\ wrpc' = NoRpc
  /\ UNCHANGED <<appliedIndex, weval, failures, windex, wcaller, wsnap,
                 wbackoff, wcalls>>
  /\ UNCHANGED <<leaderVars, brokerVars>>

\* waitForIndex: the index is not reached, the limit has not passed:
\* backoffErr computes the backoff and starts to sleep
waitForIndexBackoff(w) ==
  /\ wpc[w] = "CHECK"
  /\ ~indexReached(windex[w], appliedIndex)
  /\ wcalls[w] < MaxBackoffs
  /\ wbackoff' = [wbackoff EXCEPT ![w] = backoffSlept(failures[w])]
  /\ failures' = [failures EXCEPT ![w] = failuresAfter(failures[w])]
  /\ wcalls' = [wcalls EXCEPT ![w] = @ + 1]
  /\ wpc' = [wpc EXCEPT ![w] = "sleepCHECK"]
  /\ UNCHANGED <<serverVars, jobVars>>
  /\ wrpc' = NoRpc
  /\ UNCHANGED <<appliedIndex, weval, windex, wcaller, wsnap, werr, wplan>>
  /\ UNCHANGED <<leaderVars, brokerVars>>

\* invokeScheduler: snapshot the state and create the scheduler; an error
\* of either is returned to run, which nacks and continues
invokeScheduler(w, ok) ==
  /\ wpc[w] = "snapshot"
  /\ IF ok
     THEN /\ wsnap' = [wsnap EXCEPT ![w] = appliedIndex]
          /\ wpc' = [wpc EXCEPT ![w] = "process"]
          /\ UNCHANGED werr
     ELSE /\ wpc' = [wpc EXCEPT ![w] = "nack"]
          /\ werr' = [werr EXCEPT ![w] = "snapshot"]
          /\ UNCHANGED wsnap
  /\ UNCHANGED <<serverVars, jobVars>>
  /\ wrpc' = NoRpc
  /\ UNCHANGED <<appliedIndex, weval, failures, windex, wcaller, wbackoff,
                 wcalls, wplan>>
  /\ UNCHANGED <<leaderVars, brokerVars>>

\* SubmitPlan, called by the scheduler: the Plan.Submit RPC fails
\* ("rpc"), answers without a result ("missing") or with a result whose
\* RefreshIndex is 0 ("applied"); SubmitPlan returns at once
SubmitPlan(w, answer) ==
  /\ wpc[w] = "process"
  /\ wplan' = [wplan EXCEPT ![w] =
        CASE answer = "rpc"     -> [refresh |-> 0, result |-> FALSE, state |-> -1, err |-> "rpc"]
          [] answer = "missing" -> [refresh |-> 0, result |-> FALSE, state |-> -1, err |-> "missing"]
          [] answer = "applied" -> [refresh |-> 0, result |-> TRUE, state |-> -1, err |-> "nil"]]
  /\ UNCHANGED <<serverVars, jobVars>>
  /\ wrpc' = [worker |-> w, call |-> "Plan.Submit", id |-> weval[w].ID]
  /\ UNCHANGED <<appliedIndex, wpc, weval, failures, windex, wcaller, wsnap,
                 wbackoff, wcalls, werr>>
  /\ UNCHANGED <<leaderVars, brokerVars>>

\* a SubmitPlan that snapshots the state for a refresh without waiting
\* for the index
SubmitPlanRefreshNoWait(w, refreshIndex) ==
  /\ wpc[w] = "process"
  /\ refreshIndex # 0
  /\ wsnap' = [wsnap EXCEPT ![w] = appliedIndex]
  /\ wplan' = [wplan EXCEPT ![w] =
        [refresh |-> refreshIndex, result |-> TRUE, state |-> appliedIndex, err |-> "nil"]]
  /\ UNCHANGED <<serverVars, jobVars>>
  /\ wrpc' = [worker |-> w, call |-> "Plan.Submit", id |-> weval[w].ID]
  /\ UNCHANGED <<appliedIndex, wpc, weval, failures, windex, wcaller, wbackoff,
                 wcalls, werr>>
  /\ UNCHANGED <<leaderVars, brokerVars>>

\* SubmitPlan: the result has a non-zero RefreshIndex: waitForIndex on it
SubmitPlanRefresh(w, refreshIndex) ==
  /\ wpc[w] = "process"
  /\ refreshIndex # 0
  /\ windex' = [windex EXCEPT ![w] = refreshIndex]
  /\ wcaller' = [wcaller EXCEPT ![w] = "SubmitPlan"]
  /\ wpc' = [wpc EXCEPT ![w] = "CHECK"]
  /\ wplan' = [wplan EXCEPT ![w] =
        [refresh |-> refreshIndex, result |-> FALSE, state |-> -1, err |-> "none"]]
  /\ UNCHANGED <<serverVars, jobVars>>
  /\ wrpc' = [worker |-> w, call |-> "Plan.Submit", id |-> weval[w].ID]
  /\ UNCHANGED <<appliedIndex, weval, failures, wsnap, wbackoff, wcalls, werr>>
  /\ UNCHANGED <<leaderVars, brokerVars>>

\* a run that acks whatever invokeScheduler returned
processDoneAlwaysAck(w, ok) ==
  /\ wpc[w] = "process"
  /\ wpc' = [wpc EXCEPT ![w] = "ack"]
  /\ werr' = [werr EXCEPT ![w] = IF ok THEN "nil" ELSE "process"]
  /\ wplan' = [wplan EXCEPT ![w] = NoPlan]
  /\ UNCHANGED <<serverVars, jobVars>>
  /\ wrpc' = NoRpc
  /\ UNCHANGED <<appliedIndex, weval, failures, windex, wcaller, wsnap,
                 wbackoff, wcalls>>
  /\ UNCHANGED <<leaderVars, brokerVars>>

\* sched.Process returns and invokeScheduler with it; run goes on to ack
\* on nil and to nack on an error
processDone(w, ok) ==
  /\ wpc[w] = "process"
  /\ wpc' = [wpc EXCEPT ![w] = IF ok THEN "ack" ELSE "nack"]
  /\ werr' = [werr EXCEPT ![w] = IF ok THEN "nil" ELSE "process"]
  /\ wplan' = [wplan EXCEPT ![w] = NoPlan]
  /\ UNCHANGED <<serverVars, jobVars>>
  /\ wrpc' = NoRpc
  /\ UNCHANGED <<appliedIndex, weval, failures, windex, wcaller, wsnap,
                 wbackoff, wcalls>>
  /\ UNCHANGED <<leaderVars, brokerVars>>

\* run from the shutdown check to the call of sendAck, as the broker sees
\* it: with no shutdown the worker arrives at its Ack (waitForIndex and
\* invokeScheduler returned nil) or at its Nack (one returned err)
runBody(w, err) ==
  /\ wpc[w] = "dequeued"
  /\ ~shutdown
  /\ wpc' = [wpc EXCEPT ![w] = IF err = "nil" THEN "ack" ELSE "nack"]
  /\ werr' = [werr EXCEPT ![w] = err]
  /\ UNCHANGED <<serverVars, jobVars>>
  /\ wrpc' = NoRpc
  /\ UNCHANGED <<appliedIndex, weval, failures, windex, wcaller, wsnap,
                 wbackoff, wcalls, wplan>>
  /\ UNCHANGED <<leaderVars, brokerVars>>

\* sendAck(eval.ID, ack): the Eval.Ack or Eval.Nack RPC; its error is
\* logged and swallowed.  run then returns (after the shutdown check) or
\* continues with the next dequeue
sendAck(w, rpcOk) ==
  /\ wpc[w] \in {"ack", "nack", "nackExit"}
  /\ UNCHANGED <<serverVars, jobVars>>
  /\ wrpc' = [worker |-> w,
              call |-> IF wpc[w] = "ack" THEN "Eval.Ack" ELSE "Eval.Nack",
              id |-> weval[w].ID]
  /\ wpc' = [wpc EXCEPT ![w] = IF wpc[w] = "nackExit" THEN "exit" ELSE "REQ"]
  /\ weval' = [weval EXCEPT ![w] = NoEval]
  /\ werr' = [werr EXCEPT ![w] = "nil"]
  /\ UNCHANGED <<appliedIndex, failures, windex, wcaller, wsnap, wbackoff,
                 wcalls, wplan>>
  /\ UNCHANGED leaderVars

(* ------------------------- evaluation broker ---------------------------- *)
\* The broker is not part of these sources; it is modelled after its
\* description: a pending queue ordered by priority and enqueue time,
\* deliveries outstanding until Ack, Nack or the visibility timer, and
\* SetEnabled.  The Eval.Ack and Eval.Nack requests of the worker carry the
\* evaluation ID only (sendAck), so the endpoint resolves whatever delivery
\* of that evaluation is outstanding.

\* priority and scheduler class of an evaluation
Priority(e) == EvalCatalog[e].Priority
Type(e) == EvalCatalog[e].Type

\* w.srv.config.EnabledSchedulers
EnabledSchedulers == {"service", "batch"}

\* a pending queue that puts a new evaluation before its equals
InsertReadyBeforeEquals(q, e) ==
  SelectSeq(q, LAMBDA x : Priority(x) > Priority(e)) \o <<e>> \o
  SelectSeq(q, LAMBDA x : Priority(x) <= Priority(e))

\* Enqueue into the pending queue: behind every evaluation of the same or
\* a higher priority
InsertReady(q, e) ==
  SelectSeq(q, LAMBDA x : Priority(x) >= Priority(e)) \o <<e>> \o
  SelectSeq(q, LAMBDA x : Priority(x) < Priority(e))

\* InsertReady of several evaluations, in the order of their IDs
RECURSIVE InsertAll(_, _)
InsertAll(q, es) ==
  IF es = {} THEN q
  ELSE LET e == CHOOSE x \in es : \A y \in es : x <= y IN
         InsertAll(InsertReady(q, e), es \ {e})

Without(q, e) == SelectSeq(q, LAMBDA x : x # e)

\* the evaluations with an outstanding delivery
Unacked == {d.eval : d \in unack}

\* Dequeue(schedulers): the pending evaluations of the listed classes
Matching(schedulers) == SelectSeq(ready, LAMBDA x : Type(x) \in schedulers)

\* an Enqueue that queues an evaluation again while it is delivered
EnqueueNoDefer(e) ==
  /\ brokerEnabled
  /\ e \notin Range(ready)
  /\ ready' = InsertReady(ready, e)
  /\ UNCHANGED <<unack, waiting, deferred>>
  /\ UNCHANGED <<serverVars, jobVars>>
  /\ wrpc' = NoRpc
  /\ UNCHANGED <<leaderVars, workerVars>>

\* Enqueue(eval): into the pending queue; an evaluation that is delivered
\* is deferred until the delivery resolves, one that is pending is already
\* there
Enqueue(e) ==
  /\ brokerEnabled
  /\ e \notin Range(ready)
  /\ e \notin deferred
  /\ IF e \in Unacked
     THEN /\ deferred' = deferred \cup {e}
          /\ UNCHANGED ready
     ELSE /\ ready' = InsertReady(ready, e)
          /\ UNCHANGED deferred
  /\ UNCHANGED <<unack, waiting>>
  /\ UNCHANGED <<serverVars, jobVars>>
  /\ wrpc' = NoRpc
  /\ UNCHANGED <<leaderVars, workerVars>>

\* Eval.Dequeue answers worker w with the first pending evaluation of its
\* classes, which becomes unacked at w
EvalDequeue(w) ==
  /\ brokerEnabled
  /\ Matching(EnabledSchedulers) # <<>>
  /\ LET e == Head(Matching(EnabledSchedulers)) IN
       /\ ready' = Without(ready, e)
       /\ unack' = unack \cup {[eval |-> e, worker |-> w]}
       /\ dequeueEvaluation(w, [ID |-> e, ModifyIndex |-> 0])
  /\ waiting' = waiting \ {w}
  /\ UNCHANGED deferred

\* Eval.Dequeue of worker w finds nothing pending and blocks
EvalDequeueBlocks(w) ==
  /\ brokerEnabled
  /\ wpc[w] = "REQ"
  /\ w \notin waiting
  /\ Matching(EnabledSchedulers) = <<>>
  /\ waiting' = waiting \cup {w}
  /\ UNCHANGED <<ready, unack, deferred>>
  /\ UNCHANGED <<serverVars, jobVars>>
  /\ wrpc' = NoRpc
  /\ UNCHANGED <<leaderVars, workerVars>>

\* the blocked Eval.Dequeue of worker w times out and answers no evaluation
EvalDequeueTimeout(w) ==
  /\ w \in waiting
  /\ waiting' = waiting \ {w}
  /\ dequeueEmpty(w)
  /\ UNCHANGED <<ready, unack, deferred>>

\* the broker state after the outstanding delivery of e is acked: e is
\* discarded, or queued if it was enqueued again meanwhile
Acked(e) ==
  /\ unack' = {d \in unack : d.eval # e}
  /\ ready' = IF e \in deferred THEN InsertReady(ready, e) ELSE ready
  /\ deferred' = deferred \ {e}

\* the broker state after the outstanding delivery of e is nacked or
\* its visibility timer expires: e is pending again
Nacked(e) ==
  /\ unack' = {d \in unack : d.eval # e}
  /\ ready' = InsertReady(ready, e)
  /\ deferred' = deferred \ {e}

\* Eval.Ack / Eval.Nack of worker w for the evaluation it holds; a request
\* for an evaluation with no outstanding delivery, or to a disabled broker,
\* is rejected, which sendAck logs
EvalResolve(w) ==
  /\ LET e == weval[w].ID
         ok == brokerEnabled /\ e \in Unacked IN
       /\ sendAck(w, ok)
       /\ IF ~ok THEN UNCHANGED <<ready, unack, deferred>>
          ELSE IF wpc[w] = "ack" THEN Acked(e) ELSE Nacked(e)
  /\ UNCHANGED waiting

\* the visibility timer of a delivery expires: a Nack by the broker
visibilityTimeout(d) ==
  /\ d \in unack
  /\ Nacked(d.eval)
  /\ UNCHANGED waiting
  /\ UNCHANGED <<serverVars, jobVars>>
  /\ wrpc' = NoRpc
  /\ UNCHANGED <<leaderVars, workerVars>>

\* SetEnabled(b) on the broker state: disabling puts the unacked
\* evaluations back into the pending queue and releases the blocked
\* dequeuers, which find no evaluation
brokerSetEnabled(b) ==
  /\ brokerEnabled' = b
  /\ IF b \/ ~brokerEnabled
     THEN UNCHANGED brokerVars
     ELSE /\ ready' = InsertAll(ready, Unacked)
          /\ unack' = {}
          /\ waiting' = {}
          /\ deferred' = {}

\* SetEnabled(b), as establishLeadership and revokeLeadership call it,
\* seen from the broker: the leader loops are not followed
SetEnabled(b) ==
  /\ brokerEnabled # b
  /\ brokerSetEnabled(b)
  /\ UNCHANGED <<serverVars, jobVars>>
  /\ wrpc' = NoRpc
  /\ UNCHANGED workerVars
  /\ UNCHANGED <<stopCh, spawned, lastEdge, monitorDone, pc, closed,
                 establishedLeader, rchSet, interval, barrierErr,
                 planQueueEnabled, shutdown, members, peers, reconcileCh,
                 eventBudget, last>>

(* ---------------------------- Server.Shutdown --------------------------- *)
\* What NewServer left of the server.  setupRaft creates the FSM first,
\* the bolt store only outside DevMode, and raft last; when it fails,
\* NewServer calls Shutdown on what there is.
Builds ==
  {b \in [raft : BOOLEAN, raftStore : BOOLEAN, fsm : BOOLEAN] :
     (b.raft => b.fsm) /\ (b.raftStore => b.fsm)}

\* a server whose setupRaft returned nil on a data directory
RunningServer == [raft |-> TRUE, raftStore |-> TRUE, fsm |-> TRUE]

NoTeardown == [shutdownCh |-> 0, raft |-> 0, raftStore |-> 0, fsm |-> 0]

\* Shutdown after the s.shutdown check: close(s.shutdownCh); with a raft,
\* close transport and layer and shut raft down, and close the store if
\* there is one; close the FSM if there is one
ShutdownTeardown(t, b) ==
  [shutdownCh |-> t.shutdownCh + 1,
   raft       |-> t.raft + (IF b.raft THEN 1 ELSE 0),
   raftStore  |-> t.raftStore + (IF b.raft /\ b.raftStore THEN 1 ELSE 0),
   fsm        |-> t.fsm + (IF b.fsm THEN 1 ELSE 0)]

\* a Shutdown that does not take shutdownLock
ShutdownLockNoMutex(c) ==
  /\ spc[c] = "idle"
  /\ spc' = [spc EXCEPT ![c] = "locked"]
  /\ last' = NoLast
  /\ wrpc' = NoRpc
  /\ UNCHANGED <<built, shutdownLock, teardown>>
  /\ UNCHANGED <<lifecycleVars, workerVars, brokerVars, jobVars>>

\* Shutdown, call c: s.shutdownLock.Lock() succeeds
ShutdownLock(c) ==
  /\ spc[c] = "idle"
  /\ shutdownLock = 0
  /\ shutdownLock' = c
  /\ spc' = [spc EXCEPT ![c] = "locked"]
  /\ last' = NoLast
  /\ wrpc' = NoRpc
  /\ UNCHANGED <<built, teardown>>
  /\ UNCHANGED <<lifecycleVars, workerVars, brokerVars, jobVars>>

\* Shutdown, call c: if s.shutdown { return nil } (the deferred Unlock
\* runs); else go on
ShutdownCheck(c) ==
  /\ spc[c] = "locked"
  /\ IF shutdown
     THEN /\ spc' = [spc EXCEPT ![c] = "returned"]
          /\ shutdownLock' = 0
     ELSE /\ spc' = [spc EXCEPT ![c] = "closing"]
          /\ UNCHANGED shutdownLock
  /\ last' = NoLast
  /\ wrpc' = NoRpc
  /\ UNCHANGED <<built, teardown>>
  /\ UNCHANGED <<lifecycleVars, workerVars, brokerVars, jobVars>>

\* Shutdown, call c: s.shutdown = true, close(s.shutdownCh), the raft and
\* FSM teardown, return nil (the deferred Unlock runs)
ShutdownClose(c) ==
  /\ spc[c] = "closing"
  /\ shutdown' = TRUE
  /\ teardown' = ShutdownTeardown(teardown, built)
  /\ spc' = [spc EXCEPT ![c] = "returned"]
  /\ shutdownLock' = 0
  /\ last' = NoLast
  /\ wrpc' = NoRpc
  /\ UNCHANGED built
  /\ UNCHANGED <<stopCh, spawned, lastEdge, monitorDone, pc, closed,
                 establishedLeader, rchSet, interval, barrierErr,
                 planQueueEnabled, brokerEnabled, members, peers, reconcileCh,
                 eventBudget>>
  /\ UNCHANGED <<workerVars, brokerVars, jobVars>>

(* -------------------------------- Job.Run ------------------------------- *)
ConcurrencyAllow == "allow"
ConcurrencyForbid == "forbid"

\* the server runs have no job to run
NoJob == [Agent |-> FALSE, Disabled |-> FALSE, Concurrency |-> ""]
NeverRan == [FinishedAtIsZero |-> TRUE, Success |-> FALSE]

\* the Job objects Run is called on: with or without an agent, disabled
\* or not, with either policy or none set
Jobs == [Agent : BOOLEAN, Disabled : BOOLEAN,
         Concurrency : {ConcurrencyAllow, ConcurrencyForbid, ""}]

\* what the store holds of the job's last execution
StoredJobs == [FinishedAtIsZero : BOOLEAN, Success : BOOLEAN]

\* Job.Status(): -1 without an agent, Running while the stored FinishedAt
\* is zero, else by the stored Success
Status(j, st) ==
  IF ~j.Agent THEN -1
  ELSE IF st.FinishedAtIsZero THEN Running
  ELSE LET success == IF st.Success THEN 1 ELSE 0
           failed == IF st.Success THEN 0 ELSE 1 IN
       IF failed = 0 THEN Success
       ELSE IF failed > 0 /\ success = 0 THEN Failed
       ELSE IF failed > 0 /\ success > 0 THEN PartialyFailed
       ELSE 0

\* Job.isRunnable(): a running job is skipped under the forbid policy
isRunnable(j, st) ==
  LET status == Status(j, st) IN
  IF status = Running
  THEN IF j.Concurrency = ConcurrencyAllow THEN TRUE
       ELSE IF j.Concurrency = ConcurrencyForbid THEN FALSE
       ELSE TRUE
  ELSE TRUE

\* a Run that does not take the job's mutex
RunLockNoMutex(r) ==
  /\ jpc[r] = "idle"
  /\ jpc' = [jpc EXCEPT ![r] = "locked"]
  /\ last' = NoLast
  /\ wrpc' = NoRpc
  /\ UNCHANGED <<job, stored, running>>
  /\ UNCHANGED <<lifecycleVars, workerVars, brokerVars, serverVars>>

\* Run, call r: j.running.Lock() succeeds
RunLock(r) ==
  /\ jpc[r] = "idle"
  /\ running = 0
  /\ running' = r
  /\ jpc' = [jpc EXCEPT ![r] = "locked"]
  /\ last' = NoLast
  /\ wrpc' = NoRpc
  /\ UNCHANGED <<job, stored>>
  /\ UNCHANGED <<lifecycleVars, workerVars, brokerVars, serverVars>>

\* Run, call r: the Agent, Disabled and isRunnable checks; it calls
\* j.Agent.RunQuery(j) or returns (the deferred Unlock runs)
RunCheck(r) ==
  /\ jpc[r] = "locked"
  /\ IF job.Agent /\ job.Disabled = FALSE /\ isRunnable(job, stored)
     THEN /\ jpc' = [jpc EXCEPT ![r] = "RunQuery"]
          /\ UNCHANGED running
     ELSE /\ jpc' = [jpc EXCEPT ![r] = "returned"]
          /\ running' = 0
  /\ last' = NoLast
  /\ wrpc' = NoRpc
  /\ UNCHANGED <<job, stored>>
  /\ UNCHANGED <<lifecycleVars, workerVars, brokerVars, serverVars>>

\* Run, call r: RunQuery returns and so does Run (the deferred Unlock runs)
RunQueryReturns(r) ==
  /\ jpc[r] = "RunQuery"
  /\ jpc' = [jpc EXCEPT ![r] = "returned"]
  /\ running' = 0
  /\ last' = NoLast
  /\ wrpc' = NoRpc
  /\ UNCHANGED <<job, stored>>
  /\ UNCHANGED <<lifecycleVars, workerVars, brokerVars, serverVars>>

\* the store is written by the agents that execute the job, not by Run: an
\* execution is recorded as started (FinishedAt zero) or as finished
StoreUpdate(st) ==
  /\ st # stored
  /\ stored' = st
  /\ last' = NoLast
  /\ wrpc' = NoRpc
  /\ UNCHANGED <<job, running, jpc>>
  /\ UNCHANGED <<lifecycleVars, workerVars, brokerVars, serverVars>>

\* the server after NewServer: no leader loop, queues disabled, only the
\* local member in the gossip pool
InitCommon ==
  /\ monitorDone = FALSE
  /\ closed = [l \in Epochs |-> FALSE]
  /\ establishedLeader = [l \in Epochs |-> FALSE]
  /\ rchSet = [l \in Epochs |-> FALSE]
  /\ interval = [l \in Epochs |-> "pending"]
  /\ barrierErr = [l \in Epochs |-> FALSE]
  /\ planQueueEnabled = FALSE /\ brokerEnabled = FALSE
  /\ shutdown = FALSE
  /\ last = NoLast
  /\ appliedIndex = 0
  /\ wpc = [w \in Workers |-> "REQ"]
  /\ weval = [w \in Workers |-> NoEval]
  /\ failures = [w \in Workers |-> 0]
  /\ windex = [w \in Workers |-> 0]
  /\ wcaller = [w \in Workers |-> "run"]
  /\ wsnap = [w \in Workers |-> 0]
  /\ wbackoff = [w \in Workers |-> 0]
  /\ wcalls = [w \in Workers |-> 0]
  /\ werr = [w \in Workers |-> "nil"]
  /\ wrpc = [worker |-> 0, call |-> "none", id |-> 0]
  /\ wplan = [w \in Workers |-> [refresh |-> 0, result |-> FALSE, state |-> -1, err |-> "none"]]
  /\ ready = <<>>
  /\ unack = {}
  /\ waiting = {}
  /\ deferred = {}
  /\ shutdownLock = 0
  /\ spc = [c \in ShutdownCalls |-> "idle"]
  /\ teardown = NoTeardown
  /\ running = 0
  /\ jpc = [r \in RunCalls |-> "idle"]

\* lifecycle runs: the server before its first isLeader edge; the gossip
\* pool has formed (n1 is alive or has left) and stays as it is
Init ==
  /\ InitCommon
  /\ built = RunningServer
  /\ job = NoJob /\ stored = NeverRan
  /\ stopCh = 0 /\ spawned = 0 /\ lastEdge = FALSE
  /\ pc = [l \in Epochs |-> "idle"]
  /\ members \in {ms \in [LifecyclePool -> {"alive", "left"}] : ms[LocalName] = "alive"}
  /\ peers = {"a0"}
  /\ reconcileCh = <<>>
  /\ eventBudget = 0

\* reconciliation runs: the server has just read its first isLeader = true
\* and spawned leader loop 1; the membership changes and the raft store may
\* hold any peer set with the local address
ReconInit ==
  /\ InitCommon
  /\ built = RunningServer
  /\ job = NoJob /\ stored = NeverRan
  /\ stopCh = 1 /\ spawned = 1 /\ lastEdge = TRUE
  /\ pc = [l \in Epochs |-> IF l = 1 THEN "RECONCILE" ELSE "idle"]
  /\ members = [n \in ReconPool |-> IF n = LocalName THEN "alive" ELSE "none"]
  /\ peers \in {p \in SUBSET Addrs : "a0" \in p /\ "a4" \notin p /\ "a3" \notin p}
  /\ reconcileCh = <<>>
  /\ eventBudget = MaxMemberEvents

\* convergence runs: leader loop 1 has just been spawned and the membership
\* has stopped changing, in any mix of alive, left and reaped members; the
\* last event of at most one member is still queued on reconcileCh
StableInit ==
  /\ InitCommon
  /\ built = RunningServer
  /\ job = NoJob /\ stored = NeverRan
  /\ stopCh = 1 /\ spawned = 1 /\ lastEdge = TRUE
  /\ pc = [l \in Epochs |-> IF l = 1 THEN "RECONCILE" ELSE "idle"]
  /\ members \in {ms \in [StablePool -> {"alive", "left", "reap"}] : ms[LocalName] = "alive"}
  /\ peers \in {p \in SUBSET Addrs : "a0" \in p /\ "a4" \notin p /\ "a3" \notin p}
  /\ reconcileCh \in {<<>>} \cup {<<[Name |-> n, Status |-> members[n]]>> : n \in StablePool \ {LocalName}}
  /\ eventBudget = 0

(* --------------------------- monitorLeadership -------------------------- *)
\* case isLeader := <-leaderCh
monitorLeadership(isLeader) ==
  /\ ~monitorDone
  /\ isLeader => spawned < MaxEpochs
  /\ lastEdge' = isLeader
  /\ IF isLeader
     THEN /\ stopCh' = spawned + 1
          /\ spawned' = spawned + 1
          /\ pc' = [pc EXCEPT ![spawned + 1] = "RECONCILE"]
          /\ UNCHANGED closed
     ELSE IF stopCh # 0
     THEN /\ closed' = [closed EXCEPT ![stopCh] = TRUE]
          /\ stopCh' = 0
          /\ UNCHANGED <<spawned, pc>>
     ELSE UNCHANGED <<stopCh, spawned, pc, closed>>
  /\ last' = NoLast
  /\ UNCHANGED <<serverVars, jobVars>>
  /\ wrpc' = NoRpc
  /\ UNCHANGED <<workerVars, brokerVars>>
  /\ UNCHANGED <<monitorDone, establishedLeader, rchSet, interval, barrierErr,
                 planQueueEnabled, brokerEnabled, shutdown, members, peers,
                 reconcileCh, eventBudget>>

\* case <-s.shutdownCh: return
monitorShutdown ==
  /\ ~monitorDone
  /\ shutdown
  /\ monitorDone' = TRUE
  /\ last' = NoLast
  /\ UNCHANGED <<serverVars, jobVars>>
  /\ wrpc' = NoRpc
  /\ UNCHANGED <<workerVars, brokerVars>>
  /\ UNCHANGED <<stopCh, spawned, lastEdge, pc, closed, establishedLeader,
                 rchSet, interval, barrierErr, planQueueEnabled, brokerEnabled,
                 shutdown, members, peers, reconcileCh, eventBudget>>

(* ------------------------------ leaderLoop ------------------------------ *)
\* a loop that goes on to establish although its Barrier failed
afterBarrierIgnoringErr(ok, established) ==
  IF established THEN "reconcile" ELSE "establish"

\* where the loop goes after the Barrier call returned
afterBarrier(ok, established) ==
  IF ~ok THEN "WAIT"
  ELSE IF established THEN "reconcile" ELSE "establish"

\* RECONCILE: reset reconcileCh, arm the interval, run the raft barrier
Barrier(l, ok) ==
  /\ pc[l] = "RECONCILE"
  /\ rchSet' = [rchSet EXCEPT ![l] = FALSE]
  /\ interval' = [interval EXCEPT ![l] = "pending"]
  /\ barrierErr' = [barrierErr EXCEPT ![l] = ~ok]
  /\ pc' = [pc EXCEPT ![l] = afterBarrier(ok, establishedLeader[l])]
  /\ last' = NoLast
  /\ UNCHANGED <<serverVars, jobVars>>
  /\ wrpc' = NoRpc
  /\ UNCHANGED <<workerVars, brokerVars>>
  /\ UNCHANGED <<stopCh, spawned, lastEdge, monitorDone, closed,
                 establishedLeader, planQueueEnabled, brokerEnabled, shutdown,
                 members, peers, reconcileCh, eventBudget>>

\* the time.After channel of the loop becomes ready; the loop looks at it
\* only in the select of WAIT, so a fire before that shows there
TimerFire(l) ==
  /\ pc[l] = "WAIT"
  /\ interval[l] = "pending"
  /\ interval' = [interval EXCEPT ![l] = "fired"]
  /\ last' = NoLast
  /\ UNCHANGED <<serverVars, jobVars>>
  /\ wrpc' = NoRpc
  /\ UNCHANGED <<workerVars, brokerVars>>
  /\ UNCHANGED <<stopCh, spawned, lastEdge, monitorDone, pc, closed,
                 establishedLeader, rchSet, barrierErr, planQueueEnabled,
                 brokerEnabled, shutdown, members, peers, reconcileCh,
                 eventBudget>>

\* establishLeadership, first call: s.planQueue.SetEnabled(true)
establishLeadership(l) ==
  /\ pc[l] = "establish"
  /\ planQueueEnabled' = TRUE
  /\ pc' = [pc EXCEPT ![l] = "establish2"]
  /\ last' = NoLast
  /\ UNCHANGED <<serverVars, jobVars>>
  /\ wrpc' = NoRpc
  /\ UNCHANGED <<workerVars, brokerVars>>
  /\ UNCHANGED <<stopCh, spawned, lastEdge, monitorDone, closed,
                 establishedLeader, rchSet, interval, barrierErr, brokerEnabled,
                 shutdown, members, peers, reconcileCh, eventBudget>>

\* establishLeadership, second call: s.evalBroker.SetEnabled(true); it
\* returns nil and the loop sets establishedLeader
establishBroker(l) ==
  /\ pc[l] = "establish2"
  /\ brokerSetEnabled(TRUE)
  /\ UNCHANGED <<serverVars, jobVars>>
  /\ wrpc' = NoRpc
  /\ establishedLeader' = [establishedLeader EXCEPT ![l] = TRUE]
  /\ pc' = [pc EXCEPT ![l] = "reconcile"]
  /\ last' = NoLast
  /\ UNCHANGED workerVars
  /\ UNCHANGED <<stopCh, spawned, lastEdge, monitorDone, closed, rchSet,
                 interval, barrierErr, planQueueEnabled, shutdown, members,
                 peers, reconcileCh, eventBudget>>

\* a pass that goes on to listen on reconcileCh although reconcile failed
reconcilePassAlwaysListens(l, list, failAt) ==
  /\ pc[l] = "reconcile"
  /\ LET r == reconcile(peers, list, failAt) IN
     /\ peers' = r.peers
     /\ rchSet' = [rchSet EXCEPT ![l] = TRUE]
     /\ last' = [act |-> "reconcile", loop |-> l,
                 ops |-> r.ops, err |-> r.err, given |-> Range(list),
                 visited |-> r.visited, before |-> peers]
  /\ pc' = [pc EXCEPT ![l] = "WAIT"]
  /\ UNCHANGED <<serverVars, jobVars>>
  /\ wrpc' = NoRpc
  /\ UNCHANGED <<workerVars, brokerVars>>
  /\ UNCHANGED <<stopCh, spawned, lastEdge, monitorDone, closed,
                 establishedLeader, interval, barrierErr, planQueueEnabled,
                 brokerEnabled, shutdown, members, reconcileCh, eventBudget>>

\* s.reconcile() over the slice Members() returned, then WAIT; reconcileCh
\* is set only when the pass returned nil
reconcilePass(l, list, failAt) ==
  /\ pc[l] = "reconcile"
  /\ LET r == reconcile(peers, list, failAt) IN
     /\ peers' = r.peers
     /\ rchSet' = [rchSet EXCEPT ![l] = ~r.err]
     /\ last' = [act |-> "reconcile", loop |-> l,
                 ops |-> r.ops, err |-> r.err, given |-> Range(list),
                 visited |-> r.visited, before |-> peers]
  /\ pc' = [pc EXCEPT ![l] = "WAIT"]
  /\ UNCHANGED <<serverVars, jobVars>>
  /\ wrpc' = NoRpc
  /\ UNCHANGED <<workerVars, brokerVars>>
  /\ UNCHANGED <<stopCh, spawned, lastEdge, monitorDone, closed,
                 establishedLeader, interval, barrierErr, planQueueEnabled,
                 brokerEnabled, shutdown, members, reconcileCh, eventBudget>>

\* WAIT: case <-stopCh: return (the deferred revokeLeadership runs next;
\* the locals of the loop are dead from here on and are cleared)
selectStop(l) ==
  /\ pc[l] = "WAIT"
  /\ closed[l]
  /\ pc' = [pc EXCEPT ![l] = "revoke"]
  /\ establishedLeader' = [establishedLeader EXCEPT ![l] = FALSE]
  /\ rchSet' = [rchSet EXCEPT ![l] = FALSE]
  /\ interval' = [interval EXCEPT ![l] = "pending"]
  /\ barrierErr' = [barrierErr EXCEPT ![l] = FALSE]
  /\ last' = NoLast
  /\ UNCHANGED <<serverVars, jobVars>>
  /\ wrpc' = NoRpc
  /\ UNCHANGED <<workerVars, brokerVars>>
  /\ UNCHANGED <<stopCh, spawned, lastEdge, monitorDone, closed,
                 planQueueEnabled, brokerEnabled, shutdown, members, peers,
                 reconcileCh, eventBudget>>

\* WAIT: case <-s.shutdownCh: return
selectShutdown(l) ==
  /\ pc[l] = "WAIT"
  /\ shutdown
  /\ pc' = [pc EXCEPT ![l] = "revoke"]
  /\ establishedLeader' = [establishedLeader EXCEPT ![l] = FALSE]
  /\ rchSet' = [rchSet EXCEPT ![l] = FALSE]
  /\ interval' = [interval EXCEPT ![l] = "pending"]
  /\ barrierErr' = [barrierErr EXCEPT ![l] = FALSE]
  /\ last' = NoLast
  /\ UNCHANGED <<serverVars, jobVars>>
  /\ wrpc' = NoRpc
  /\ UNCHANGED <<workerVars, brokerVars>>
  /\ UNCHANGED <<stopCh, spawned, lastEdge, monitorDone, closed,
                 planQueueEnabled, brokerEnabled, shutdown, members, peers,
                 reconcileCh, eventBudget>>

\* WAIT: case <-interval: goto RECONCILE.  A select with several ready
\* cases takes any of them, so this case needs only its own channel ready.
selectInterval(l) ==
  /\ pc[l] = "WAIT"
  /\ interval[l] = "fired"
  /\ pc' = [pc EXCEPT ![l] = "RECONCILE"]
  /\ last' = NoLast
  /\ UNCHANGED <<serverVars, jobVars>>
  /\ wrpc' = NoRpc
  /\ UNCHANGED <<workerVars, brokerVars>>
  /\ UNCHANGED <<stopCh, spawned, lastEdge, monitorDone, closed,
                 establishedLeader, rchSet, interval, barrierErr,
                 planQueueEnabled, brokerEnabled, shutdown, members, peers,
                 reconcileCh, eventBudget>>

\* WAIT: case member := <-reconcileCh: s.reconcileMember(member); a nil
\* reconcileCh never delivers
selectMember(l, fail) ==
  /\ pc[l] = "WAIT"
  /\ rchSet[l]
  /\ reconcileCh # <<>>
  /\ LET r == reconcileMember(peers, Members(members), Head(reconcileCh), fail) IN
     /\ peers' = r.peers
     /\ last' = [act |-> "reconcileMember", loop |-> l,
                 ops |-> r.ops, err |-> r.err, given |-> {Head(reconcileCh)},
                 visited |-> 1, before |-> peers]
  /\ reconcileCh' = Tail(reconcileCh)
  /\ UNCHANGED <<serverVars, jobVars>>
  /\ wrpc' = NoRpc
  /\ UNCHANGED <<workerVars, brokerVars>>
  /\ UNCHANGED <<stopCh, spawned, lastEdge, monitorDone, pc, closed,
                 establishedLeader, rchSet, interval, barrierErr,
                 planQueueEnabled, brokerEnabled, shutdown, members,
                 eventBudget>>

\* revokeLeadership, first call: s.planQueue.SetEnabled(false)
revokeLeadership(l) ==
  /\ pc[l] = "revoke"
  /\ planQueueEnabled' = FALSE
  /\ pc' = [pc EXCEPT ![l] = "revoke2"]
  /\ last' = NoLast
  /\ UNCHANGED <<serverVars, jobVars>>
  /\ wrpc' = NoRpc
  /\ UNCHANGED <<workerVars, brokerVars>>
  /\ UNCHANGED <<stopCh, spawned, lastEdge, monitorDone, closed,
                 establishedLeader, rchSet, interval, barrierErr, brokerEnabled,
                 shutdown, members, peers, reconcileCh, eventBudget>>

\* revokeLeadership, second call: s.evalBroker.SetEnabled(false); the
\* goroutine ends
revokeBroker(l) ==
  /\ pc[l] = "revoke2"
  /\ brokerSetEnabled(FALSE)
  /\ UNCHANGED <<serverVars, jobVars>>
  /\ wrpc' = NoRpc
  /\ pc' = [pc EXCEPT ![l] = "done"]
  /\ last' = NoLast
  /\ UNCHANGED workerVars
  /\ UNCHANGED <<stopCh, spawned, lastEdge, monitorDone, closed,
                 establishedLeader, rchSet, interval, barrierErr,
                 planQueueEnabled, shutdown, members, peers, reconcileCh,
                 eventBudget>>

(* ------------------------------ environment ----------------------------- *)
\* the status changes serf reports: join, fail, leave, reap, rejoin
StatusStep(from, to) ==
  \/ from \in {"none", "failed", "left", "reap"} /\ to = "alive"
  \/ from = "alive" /\ to \in {"failed", "left"}
  \/ from \in {"failed", "left"} /\ to = "reap"

\* a member event: the membership changes and the member, with its new
\* status, is queued on reconcileCh unless the event is dropped (the server
\* is not the leader, or the channel is full)
memberEvent(n, to, queued) ==
  /\ eventBudget > 0
  /\ n \in DOMAIN members
  /\ StatusStep(members[n], to)
  /\ queued => Len(reconcileCh) < ChanCap
  /\ members' = [members EXCEPT ![n] = to]
  /\ reconcileCh' = IF queued THEN Append(reconcileCh, [Name |-> n, Status |-> to])
                    ELSE reconcileCh
  /\ eventBudget' = eventBudget - 1
  /\ last' = NoLast
  /\ UNCHANGED <<serverVars, jobVars>>
  /\ wrpc' = NoRpc
  /\ UNCHANGED <<workerVars, brokerVars>>
  /\ UNCHANGED <<stopCh, spawned, lastEdge, monitorDone, pc, closed,
                 establishedLeader, rchSet, interval, barrierErr,
                 planQueueEnabled, brokerEnabled, shutdown, peers>>

\* Server.Shutdown: the first call, with no other call under way, sets the
\* flag, closes shutdownCh and tears raft and the FSM down
Shutdown ==
  /\ ~shutdown
  /\ shutdownLock = 0
  /\ shutdown' = TRUE
  /\ teardown' = ShutdownTeardown(teardown, built)
  /\ last' = NoLast
  /\ UNCHANGED <<built, shutdownLock, spc, jobVars>>
  /\ wrpc' = NoRpc
  /\ UNCHANGED <<workerVars, brokerVars>>
  /\ UNCHANGED <<stopCh, spawned, lastEdge, monitorDone, pc, closed,
                 establishedLeader, rchSet, interval, barrierErr,
                 planQueueEnabled, brokerEnabled, members, peers, reconcileCh,
                 eventBudget>>

(* ----------------------------- specification ---------------------------- *)
\* the leadership edges, the leader loops they spawn, and shutdown
Next ==
  \/ \E b \in BOOLEAN : monitorLeadership(b)
  \/ monitorShutdown
  \/ \E l \in Epochs, ok \in BOOLEAN : Barrier(l, ok)
  \/ \E l \in Epochs : TimerFire(l)
  \/ \E l \in Epochs : establishLeadership(l)
  \/ \E l \in Epochs : establishBroker(l)
  \/ \E l \in Epochs : \E list \in Orders(Members(members)) :
        \E failAt \in 0..Len(list) : reconcilePass(l, list, failAt)
  \/ \E l \in Epochs : selectStop(l)
  \/ \E l \in Epochs : selectShutdown(l)
  \/ \E l \in Epochs : selectInterval(l)
  \/ \E l \in Epochs : revokeLeadership(l)
  \/ \E l \in Epochs : revokeBroker(l)
  \/ Shutdown

Spec == Init /\ [][Next]_vars

\* the steps of one leader loop that stays leader, and the membership
ReconNext ==
  \/ \E ok \in BOOLEAN : Barrier(1, ok)
  \/ TimerFire(1)
  \/ establishLeadership(1)
  \/ establishBroker(1)
  \/ \E list \in Orders(Members(members)) :
        \E failAt \in 0..Len(list) : reconcilePass(1, list, failAt)
  \/ selectInterval(1)
  \/ \E fail \in BOOLEAN : selectMember(1, fail)
  \/ \E n \in Others, to \in Statuses, q \in BOOLEAN : memberEvent(n, to, q)

ReconSpec == ReconInit /\ [][ReconNext]_vars

\* one worker, the raft log applying entries, and shutdown; the servers
\* that answer its RPCs may answer anything
WorkerNext ==
  \/ Apply
  \/ Shutdown
  \/ dequeueFails(1) /\ UNCHANGED brokerVars
  \/ dequeueEmpty(1) /\ UNCHANGED brokerVars
  \/ \E e \in Evals : dequeueEvaluation(1, e) /\ UNCHANGED brokerVars
  \/ backoffElapsed(1)
  \/ backoffShutdown(1)
  \/ checkShutdown(1)
  \/ \E ok \in BOOLEAN : waitForIndex(1, ok)
  \/ waitForIndexTimeout(1)
  \/ waitForIndexBackoff(1)
  \/ \E ok \in BOOLEAN : invokeScheduler(1, ok)
  \/ \E a \in {"rpc", "missing", "applied"} : SubmitPlan(1, a)
  \/ \E r \in Indexes : SubmitPlanRefresh(1, r)
  \/ \E ok \in BOOLEAN : processDone(1, ok)
  \/ \E ok \in BOOLEAN : sendAck(1, ok) /\ UNCHANGED brokerVars

\* worker runs: the server after NewServer, with n1 in the gossip pool
WorkerInit == Init /\ members["n1.r1"] = "alive"

WorkerSpec == WorkerInit /\ [][WorkerNext]_vars

\* the broker, the workers that dequeue from it and resolve their
\* deliveries, the enqueuers, and the leadership enabling and disabling
\* it.  What a worker does between its dequeue and its sendAck is one step
\* here (WorkerSpec has its steps), and no RPC fails in transit.
BrokerNext ==
  \/ \E b \in BOOLEAN : SetEnabled(b)
  \/ \E e \in EvalIds : Enqueue(e)
  \/ \E w \in Workers : EvalDequeue(w)
  \/ \E w \in Workers : EvalDequeueBlocks(w)
  \/ \E w \in Workers : EvalDequeueTimeout(w)
  \/ \E w \in Workers, err \in {"nil", "process"} : runBody(w, err)
  \/ \E w \in Workers : EvalResolve(w)
  \/ \E e \in EvalIds, w \in Workers :
        visibilityTimeout([eval |-> e, worker |-> w])

BrokerSpec == WorkerInit /\ [][BrokerNext]_vars

\* the broker while no visibility timer expires: a delivery is taken from
\* its worker only by SetEnabled(false)
DisableNext ==
  \/ \E b \in BOOLEAN : SetEnabled(b)
  \/ \E e \in EvalIds : Enqueue(e)
  \/ \E w \in Workers : EvalDequeue(w)
  \/ \E w \in Workers : EvalDequeueBlocks(w)
  \/ \E w \in Workers : EvalDequeueTimeout(w)
  \/ \E w \in Workers, err \in {"nil", "process"} : runBody(w, err)
  \/ \E w \in Workers : EvalResolve(w)

DisableSpec == WorkerInit /\ [][DisableNext]_vars

\* Shutdown calls on any server NewServer may have built, taking
\* shutdownLock one after the other
ShutdownNext ==
  \/ \E c \in ShutdownCalls : ShutdownLock(c)
  \/ \E c \in ShutdownCalls : ShutdownCheck(c)
  \/ \E c \in ShutdownCalls : ShutdownClose(c)

\* the server as NewServer built it, before its first isLeader edge and
\* before any Shutdown call
ShutdownInit ==
  /\ InitCommon
  /\ built \in Builds
  /\ job = NoJob /\ stored = NeverRan
  /\ stopCh = 0 /\ spawned = 0 /\ lastEdge = FALSE
  /\ pc = [l \in Epochs |-> "idle"]
  /\ members = [n \in LifecyclePool |-> "alive"]
  /\ peers = {"a0"}
  /\ reconcileCh = <<>>
  /\ eventBudget = 0

ShutdownSpec == ShutdownInit /\ [][ShutdownNext]_vars

\* Run calls on one Job object, and the store changing under them
JobNext ==
  \/ \E r \in RunCalls : RunLock(r)
  \/ \E r \in RunCalls : RunCheck(r)
  \/ \E r \in RunCalls : RunQueryReturns(r)
  \/ \E st \in StoredJobs : StoreUpdate(st)

\* any Job object and any stored execution, no Run call under way
JobInit ==
  /\ InitCommon
  /\ built = RunningServer
  /\ job \in Jobs /\ stored \in StoredJobs
  /\ stopCh = 0 /\ spawned = 0 /\ lastEdge = FALSE
  /\ pc = [l \in Epochs |-> "idle"]
  /\ members = [n \in LifecyclePool |-> "alive"]
  /\ peers = {"a0"}
  /\ reconcileCh = <<>>
  /\ eventBudget = 0

JobSpec == JobInit /\ [][JobNext]_vars

\* one leader loop that stays leader while the membership is stable and
\* the barrier and every peer call succeed
StableNext ==
  \/ Barrier(1, TRUE)
  \/ TimerFire(1)
  \/ establishLeadership(1)
  \/ establishBroker(1)
  \/ \E list \in Orders(Members(members)) : reconcilePass(1, list, 0)
  \/ selectInterval(1)
  \/ selectMember(1, FALSE)

\* the goroutine of the loop keeps running and its timer fires: the loop is
\* sequential and the queued events are finite, so some step always being
\* taken is all its progress needs
StableFairness == WF_vars(StableNext)

StableSpec == StableInit /\ [][StableNext]_vars /\ StableFairness

(* ----------------------------- worker claims ---------------------------- *)
\* C1: while a worker snapshots the state for an evaluation and while its
\* scheduler processes it, the applied index is at least the evaluation's
\* ModifyIndex, the snapshot the scheduler plans on is at least that fresh,
\* and the applied index never decreases.
C1_SnapshotFreshAsEval ==
  /\ [](\A w \in Workers :
          /\ (wpc[w] = "snapshot" \/ wpc[w] = "process")
               => appliedIndex >= weval[w].ModifyIndex
          /\ wpc[w] = "process" => wsnap[w] >= weval[w].ModifyIndex)
  /\ [][appliedIndex' >= appliedIndex]_vars

\* C1 witness: a scheduler processes an evaluation with the highest
\* ModifyIndex on a snapshot taken at exactly that index
C1_Witness ==
  \E w \in Workers :
    /\ wpc[w] = "process"
    /\ weval[w].ModifyIndex = MaxIndex
    /\ wsnap[w] = MaxIndex

(* ------------------------- leader lifecycle claims ---------------------- *)
\* every spawned loop has reacted to the edges: a stopped loop has returned
\* and revoked, a running loop has established and sits in WAIT
LoopsReacted ==
  \A l \in 1..spawned :
    IF closed[l] THEN pc[l] = "done"
    ELSE pc[l] = "WAIT" /\ establishedLeader[l]

\* every loop still running is the one whose stop channel monitorLeadership
\* holds (no true edge overwrote an open stop channel)
NoOrphanLoop == \A l \in 1..spawned : closed[l] \/ l = stopCh

\* C2: once all leader loops have reacted to the isLeader edges (and no
\* shutdown), the broker and the plan queue are enabled exactly when the
\* last edge was true.
C2_EnabledIffLeader ==
  (~shutdown /\ NoOrphanLoop /\ LoopsReacted)
    => (brokerEnabled = lastEdge /\ planQueueEnabled = lastEdge)

\* loop l makes one of the two SetEnabled(true) calls in this step
EnablesQueues(l) ==
  \/ pc[l] = "establish" /\ pc'[l] = "establish2"
  \/ pc[l] = "establish2" /\ pc'[l] = "reconcile"

\* loop l issues AddPeer or RemovePeer in this step
IssuesPeerOp(l) == last'.loop = l /\ last'.ops # <<>>

\* C3: a leader loop whose stop channel has been closed never enables the
\* plan queue or the broker and never issues AddPeer/RemovePeer.
C3_NoWorkAfterStop ==
  [][\A l \in Epochs : closed[l] => ~EnablesQueues(l) /\ ~IssuesPeerOp(l)]_vars

\* C4: once its stop channel is closed, the WAIT select of a leader loop
\* never takes the interval case (goto RECONCILE).
C4_TimerDroppedAfterStop ==
  [][\A l \in Epochs : (closed[l] /\ pc[l] = "WAIT") => pc'[l] # "RECONCILE"]_vars

\* loop l returns from a Barrier call with an error in this step
BarrierFails(l) == pc[l] = "RECONCILE" /\ pc'[l] # "RECONCILE" /\ barrierErr'[l]

\* C5: a pass whose Barrier failed enables neither queue and reconciles
\* nothing: the step leaves the queues, the peers and establishedLeader as
\* they were and goes to WAIT with reconcileCh nil and the interval armed, and
\* the loop is at establishLeadership or reconcile only in a pass whose
\* Barrier returned without error.
C5_BarrierFailureSkipsPass ==
  /\ [](\A l \in Epochs :
          pc[l] \in {"establish", "establish2", "reconcile"} => ~barrierErr[l])
  /\ [][\A l \in Epochs : BarrierFails(l) =>
          /\ pc'[l] = "WAIT" /\ ~rchSet'[l] /\ interval'[l] = "pending"
          /\ UNCHANGED <<planQueueEnabled, brokerEnabled, peers,
                         establishedLeader>>]_vars

\* C5 witness: the Barrier of an un-established loop failed, the interval
\* fired and the loop is back at RECONCILE for the retry
C5_Witness ==
  \E l \in Epochs : pc[l] = "RECONCILE" /\ barrierErr[l] /\ ~establishedLeader[l]

(* --------------------------- reconciler claims -------------------------- *)
\* the most recent step ran reconcile() / reconcileMember()
RanReconcile == last.act = "reconcile"
RanReconcileMember == last.act = "reconcileMember"

\* C6: in a full reconciliation pass a failing AddPeer/RemovePeer does not
\* abort the pass: every member of the snapshot is visited.
C6_PassVisitsAllMembers ==
  RanReconcile => last.visited = Cardinality(last.given)

\* a member the reconciler may act on: a server of the local region that is
\* not the local node
SameRegionPeer(n) ==
  /\ Catalog[n].role = "server"
  /\ Catalog[n].region = Region
  /\ n # LocalName

\* C7: AddPeer/RemovePeer is issued only for servers of the local region
\* other than the local node; reconcileMember of any other member issues
\* nothing and returns nil, whatever the member's status.
C7_OnlySameRegionServers ==
  /\ \A i \in 1..Len(last.ops) : SameRegionPeer(last.ops[i].name)
  /\ RanReconcileMember =>
       \A m \in last.given : ~SameRegionPeer(m.Name) => last.ops = <<>> /\ ~last.err

\* C7 witness: a pass over the local node, a client or a server of another
\* region (listed as alive or left) and a member it issued a peer call for
C7_Witness ==
  /\ RanReconcile
  /\ last.ops # <<>>
  /\ \E m \in last.given : m.Name = LocalName
  /\ \E m \in last.given : m.Name # LocalName /\ ~SameRegionPeer(m.Name)
                            /\ m.Status \in {"alive", "left"}

\* member m is a bootstrap server while another listed server has the
\* bootstrap flag too
DoubleBootstrap(m) ==
  /\ Catalog[m.Name].bootstrap
  /\ \E o \in Members(members) :
       o.Name # m.Name /\ Catalog[o.Name].role = "server" /\ Catalog[o.Name].bootstrap

\* C8: reconciling an alive same-region bootstrap server while another
\* server member has the bootstrap flag issues no AddPeer for it, and
\* reconcileMember of it returns nil.
C8_DoubleBootstrapSkipped ==
  \A m \in last.given :
    (m.Status = "alive" /\ SameRegionPeer(m.Name) /\ DoubleBootstrap(m)) =>
      /\ \A i \in 1..Len(last.ops) : last.ops[i].name # m.Name
      /\ RanReconcileMember => ~last.err

\* C8 witness: reconcileMember ran for the alive bootstrap server n2 while
\* the bootstrap server n3 was listed
C8_Witness ==
  /\ RanReconcileMember
  /\ \E m \in last.given :
       m.Status = "alive" /\ SameRegionPeer(m.Name) /\ DoubleBootstrap(m)

\* reconciling the snapshot `list` on peer set ps with every raft call
\* answered, twice, gives the peer set of reconciling it once
TwiceIsOnce(ps, list) ==
  LET once == reconcile(ps, list, 0) IN
  reconcile(once.peers, list, 0).peers = once.peers

\* C9: an already-peer / unknown-peer answer is no error: reconcileMember
\* returns nil and leaves the peer set as it was, a pass with only such
\* answers visits every member, and a second pass over the same snapshot
\* leaves the peer set of the first.
C9_PeerOpsIdempotent ==
  /\ RanReconcileMember =>
       \A i \in 1..Len(last.ops) :
          last.ops[i].answer \in {"ErrKnownPeer", "ErrUnknownPeer"} =>
             ~last.err /\ peers = last.before
  /\ RanReconcile =>
       /\ (\A i \in 1..Len(last.ops) : last.ops[i].answer # "ErrOther") =>
             ~last.err /\ last.visited = Cardinality(last.given)
       /\ (\A i \in 1..Len(last.ops) : last.ops[i].answer \notin {"nil", "ErrOther"}) =>
             peers = last.before
  /\ \A list \in Orders(Members(members)) : TwiceIsOnce(peers, list)

\* C9 witness: a pass in which raft answered already-peer or unknown-peer
\* to one member and the pass went on to issue a call for a later member
C9_Witness ==
  /\ RanReconcile
  /\ \E i \in 1..Len(last.ops) :
       /\ last.ops[i].answer \in {"ErrKnownPeer", "ErrUnknownPeer"}
       /\ i < Len(last.ops)

(* --------------------------- convergence claims ------------------------- *)
\* the peer set holds every alive server of the local region and no member
\* that left or was reaped
PeersMatchMembership ==
  \A n \in DOMAIN members :
    /\ (members[n] = "alive" /\ Catalog[n].role = "server"
          /\ Catalog[n].region = Region) => Catalog[n].addr \in peers
    /\ members[n] \in {"left", "reap"} => Catalog[n].addr \notin peers

\* C10 as stated: with a stable membership, a lasting leadership and
\* succeeding barrier and peer calls, the peer set eventually holds every
\* alive same-region server and no left or reaped member.
C10_ConvergesAsStated == <>PeersMatchMembership

\* another listed server of the local region has n's address and a status
\* that asks for the opposite peer call
AddrContested(n) ==
  \E o \in DOMAIN members :
    /\ o # n /\ SameRegionPeer(o) /\ Catalog[o].addr = Catalog[n].addr
    /\ members[o] \in {"alive", "left"} /\ members[o] # members[n]

\* the peer set holds every alive same-region server other than the local
\* node that double-bootstrap detection does not hold back, and no listed
\* same-region server that left, addresses contested between an alive and
\* a left member aside
PeersMatchReconciled ==
  \A n \in DOMAIN members :
    (SameRegionPeer(n) /\ ~AddrContested(n)) =>
      /\ (members[n] = "alive" /\ ~DoubleBootstrap([Name |-> n, Status |-> "alive"]))
            => Catalog[n].addr \in peers
      /\ members[n] = "left" => Catalog[n].addr \notin peers

\* C10 amended: under the same conditions the peer set eventually holds,
\* and keeps holding, every alive same-region server other than the local
\* node that is not held back as a second bootstrap node, and no listed
\* same-region server that left, for addresses no alive and left member
\* share.
C10_ConvergesReconciled == <>[]PeersMatchReconciled

\* C10 witness: a completed pass added a peer and removed one, and the peer
\* set matches
C10_Witness ==
  /\ RanReconcile /\ ~last.err
  /\ \E i, j \in 1..Len(last.ops) :
       /\ last.ops[i].op = "AddPeer" /\ last.ops[i].answer = "nil"
       /\ last.ops[j].op = "RemovePeer" /\ last.ops[j].answer = "nil"
  /\ PeersMatchReconciled

(* -------------------------- member event claims ------------------------- *)
\* C11: a member event received from reconcileCh while leading makes the
\* loop run a pass over all current members, as a timer fire does: the
\* step that received the event was given the whole of Members()
C11_MemberEventRunsFullPass ==
  RanReconcileMember => last.given = Members(members)

(* ---------------------------- backoff claims ---------------------------- *)
\* the worker sleeps in backoffErr
Sleeping(w) == wpc[w] \in {"sleepREQ", "sleepCHECK"}

\* the intervals of the claim, in ms: 20, 80, 320, 1280, then 5 s forever
IntervalOfCall(k) == IF k < 4 THEN <<20, 80, 320, 1280>>[k + 1] ELSE 5000

\* C12: the k-th consecutive backoffErr call since the last reset (k from
\* 0) sleeps min(backoffLimit, 2^(2k) * backoffBaseline): 20 ms, 80 ms,
\* 320 ms, 1280 ms, then 5 s; the failure counter grows by one exactly in
\* the calls that sleep an uncapped interval and changes in no other way
\* than by a reset to 0, after which the next interval is the baseline.
C12_BackoffIntervals ==
  /\ [](\A w \in Workers :
          Sleeping(w) =>
            /\ wbackoff[w] = IntervalOfCall(wcalls[w] - 1)
            /\ (failures[w] = 1 => wbackoff[w] = backoffBaseline))
  /\ [][\A w \in Workers :
          /\ wcalls'[w] = wcalls[w] + 1 =>
                failures'[w] = IF wcalls[w] < 4 THEN failures[w] + 1 ELSE failures[w]
          /\ wcalls'[w] = 0 => failures'[w] = 0
          /\ failures'[w] # failures[w] =>
                wcalls'[w] = wcalls[w] + 1 \/ wcalls'[w] = 0]_vars

\* C12 witness: a worker sleeps the capped 5 s for the second time in a
\* row, its counter still at 4
C12_Witness ==
  \E w \in Workers :
    Sleeping(w) /\ wcalls[w] = 6 /\ wbackoff[w] = backoffLimit /\ failures[w] = 4

(* ---------------------------- shutdown claims --------------------------- *)
\* the step is a step of worker w
WorkerSteps(w) == wpc'[w] # wpc[w] \/ wrpc'.worker = w

\* C13: a worker that sleeps in the backoff of a failed Eval.Dequeue when
\* the shutdown signal is up leaves the sleep only by exiting its run
\* loop, and an exited worker takes no further step: no Dequeue retry, no
\* Ack, no Nack.
C13_ShutdownInDequeueBackoff ==
  [][\A w \in Workers :
       /\ (wpc[w] = "sleepREQ" /\ shutdown /\ WorkerSteps(w)) =>
             wpc'[w] = "exit" /\ wrpc'.call = "none"
       /\ wpc[w] = "exit" => ~WorkerSteps(w)]_vars

\* C13 witness: a worker has exited from the backoff of a failed dequeue
C13_Witness ==
  \E w \in Workers :
    wpc[w] = "exit" /\ shutdown /\ wcalls[w] >= 1 /\ wrpc.call = "none"

\* C14: every blocking point observes shutdown and the loops terminate; in
\* particular a worker whose waitForIndex returned because of shutdown
\* exits its run loop (after the nack) instead of going back to REQ to
\* request more work.
C14_ShutdownInWaitExits ==
  [][\A w \in Workers :
       (werr[w] = "shutdownSync" /\ WorkerSteps(w)) => wpc'[w] = "exit"]_vars

(* ------------------------- ack and nack claims -------------------------- *)
\* the worker holds a delivery it has not resolved
Holding(w) == weval[w] # NoEval

\* the step is worker w's sendAck: it issues Eval.Ack or Eval.Nack
Resolves(w) == WorkerSteps(w) /\ wrpc'.call \in {"Eval.Ack", "Eval.Nack"}

\* C15: a worker resolves every delivery exactly once before it dequeues
\* again or exits: the Ack/Nack names the evaluation held and ends the
\* holding, nothing else ends it, and no Dequeue or exit happens while
\* holding; the resolution is an Ack exactly when no shutdown was seen
\* after the dequeue and neither waitForIndex nor invokeScheduler returned
\* an error; whatever the RPC answers, the loop continues unless the
\* shutdown was seen.
C15_OneResolutionPerDelivery ==
  [][\A w \in Workers :
       /\ Resolves(w) =>
             /\ Holding(w) /\ wrpc'.id = weval[w].ID /\ ~Holding(w)'
             /\ wrpc'.call = "Eval.Ack" <=>
                   (wpc[w] # "nackExit" /\ werr[w] = "nil")
             /\ wpc'[w] = IF wpc[w] = "nackExit" THEN "exit" ELSE "REQ"
       /\ (Holding(w) /\ ~Holding(w)') => Resolves(w)
       /\ (WorkerSteps(w) /\ wrpc'.call = "Eval.Dequeue") => ~Holding(w)
       /\ wpc'[w] = "exit" => ~Holding(w)']_vars

\* C15 witness: the worker has acked an evaluation, which its scheduler
\* processed on a snapshot at MaxIndex, and is about to dequeue
C15_Witness ==
  \E w \in Workers :
    /\ wpc[w] = "REQ" /\ wsnap[w] = MaxIndex
    /\ wrpc.worker = w /\ wrpc.call = "Eval.Ack" /\ wrpc.id \in EvalIds

(* --------------------------- SubmitPlan claims -------------------------- *)
\* SubmitPlan has returned to the scheduler
PlanReturned(w) == wplan[w].err # "none"

\* worker w is inside the waitForIndex that SubmitPlan called
PlanWaits(w) == wpc[w] \in {"CHECK", "sleepCHECK"} /\ wcaller[w] = "SubmitPlan"

\* C16: a SubmitPlan that returns without error returns the result, and
\* with it a state exactly when the result's RefreshIndex is not 0; that
\* state is a snapshot taken when the applied index had reached
\* RefreshIndex.  A SubmitPlan that returns an error returns neither a
\* result nor a state, and it returns an error when the RPC fails or
\* carries no result and when its wait for RefreshIndex ends with the
\* index not reached (sync limit or shutdown).
C16_SubmitPlanRefresh ==
  /\ [](\A w \in Workers : PlanReturned(w) =>
          /\ wplan[w].err = "nil" =>
                /\ wplan[w].result
                /\ wplan[w].state # -1 <=> wplan[w].refresh # 0
                /\ wplan[w].state # -1 => wplan[w].state >= wplan[w].refresh
          /\ wplan[w].err # "nil" => ~wplan[w].result /\ wplan[w].state = -1)
  /\ [][\A w \in Workers :
          /\ (PlanWaits(w) /\ PlanReturned(w)') =>
                IF windex[w] <= appliedIndex
                THEN wplan'[w].err = "nil" => wplan'[w].state = appliedIndex
                ELSE wplan'[w].err # "nil"
          /\ (WorkerSteps(w) /\ wrpc'.call = "Plan.Submit" /\ wplan'[w].refresh = 0) =>
                wplan'[w].state = -1]_vars

\* C16 witness: SubmitPlan returned a state refreshed at index MaxIndex for
\* a result whose RefreshIndex was MaxIndex
C16_Witness ==
  \E w \in Workers :
    /\ wpc[w] = "process"
    /\ wplan[w] = [refresh |-> MaxIndex, result |-> TRUE, state |-> MaxIndex, err |-> "nil"]

(* ----------------------------- broker claims ---------------------------- *)
\* C17: whatever the workers, the enqueuers, the visibility timers and the
\* leadership do, the outstanding (unacked) deliveries of one evaluation
\* are never at two workers.
C17_AtMostOneHolder ==
  \A d1, d2 \in unack : d1.eval = d2.eval => d1.worker = d2.worker

\* C17 witness: an evaluation is unacked at one worker while another
\* worker, whose delivery of it was taken away, still works on it
C17_Witness ==
  \E d \in unack : \E w \in Workers :
    w # d.worker /\ weval[w].ID = d.eval /\ wpc[w] = "ack"

\* worker w holds an evaluation whose delivery to w is no longer
\* outstanding
Stale(w) == Holding(w) /\ [eval |-> weval[w].ID, worker |-> w] \notin unack

\* C18: the Ack or Nack of a worker whose delivery is no longer current
\* is a no-op: it neither completes nor re-queues the current delivery of
\* the evaluation, so the broker's pending and unacked evaluations stay
\* as they are.
C18_StaleResolveIsNoOp ==
  [][\A w \in Workers :
       (Stale(w) /\ Resolves(w)) => UNCHANGED <<ready, unack>>]_vars

\* C19: SetEnabled(false) is synchronous: the step that disables leaves
\* nothing unacked, has every evaluation that was pending or unacked in
\* the pending queue, and has no dequeuer blocked (those that were hold no
\* evaluation); enabling again finds those evaluations pending; and the
\* Ack or Nack of a delivery that a disable took away is rejected whenever
\* it arrives.
C19_DisableIsSynchronous ==
  [][/\ (brokerEnabled /\ ~brokerEnabled') =>
          /\ unack' = {}
          /\ Range(ready') = Range(ready) \cup Unacked
          /\ waiting' = {}
          /\ \A w \in waiting : weval'[w] = NoEval
     /\ (~brokerEnabled /\ brokerEnabled') => (ready' = ready /\ unack' = unack)
     /\ ~brokerEnabled => (ready' = ready /\ unack' = unack)
     /\ \A w \in Workers :
          (Stale(w) /\ Resolves(w)) => (ready' = ready /\ unack' = unack)]_vars

\* the pending evaluations of the class and priority of e, in queue order
Group(q, e) == SelectSeq(q, LAMBDA x : Type(x) = Type(e) /\ Priority(x) = Priority(e))

\* C20: a Dequeue delivers a pending evaluation of the highest priority of
\* its class, and the one enqueued first among those of its class and
\* priority: it delivers the first of its group in the queue, and every
\* step keeps the order of the pending evaluations of a group and puts
\* those that become pending behind them.
C20_PriorityThenFifo ==
  [][/\ \A w \in Workers :
          (wrpc'.worker = w /\ wrpc'.call = "Eval.Dequeue" /\ wrpc'.id # 0) =>
            /\ wrpc'.id \in Range(ready)
            /\ \A x \in Range(ready) :
                  Type(x) = Type(wrpc'.id) => Priority(x) <= Priority(wrpc'.id)
            /\ Head(Group(ready, wrpc'.id)) = wrpc'.id
     /\ ready' # ready => \A e \in EvalIds :
          Group(ready', e) =
            SelectSeq(Group(ready, e), LAMBDA x : x \in Range(ready')) \o
            SelectSeq(Group(ready', e), LAMBDA x : x \notin Range(ready))]_vars

\* C20 witness: a worker was delivered an evaluation while one of the same
\* class and priority, enqueued later, stays pending, after another worker
\* was delivered one of a higher priority
C20_Witness ==
  /\ wrpc.call = "Eval.Dequeue" /\ wrpc.id # 0
  /\ \E x \in Range(ready) : Priority(x) = Priority(wrpc.id) /\ Type(x) = Type(wrpc.id)
  /\ \E w \in Workers : Holding(w) /\ Priority(weval[w].ID) > Priority(wrpc.id)

(* ------------------------- cancellation claims -------------------------- *)
\* loop l runs and its stop channel has not been closed
Live(l) == pc[l] \notin {"idle", "done"} /\ ~closed[l]

\* C21: at most one leader loop is live, and a live loop is the one whose
\* stop channel monitorLeadership holds, so that the next false edge closes
\* it: no loop is left running with a stop channel nobody can close.
C21_NoOrphanedLoop ==
  /\ Cardinality({l \in Epochs : Live(l)}) <= 1
  /\ \A l \in Epochs : Live(l) => stopCh = l

(* ------------------------- reconcile channel claims --------------------- *)
\* loop l receives a member event from reconcileCh in this step
ReceivesMember(l) == last'.act = "reconcileMember" /\ last'.loop = l

\* loop l returns from s.reconcile() in this step
ReturnsFromReconcile(l) == last'.act = "reconcile" /\ last'.loop = l

\* C22: the leader loop listens on reconcileCh only after a pass that
\* completed barrier, establish and a full reconcile without error.  The
\* channel becomes non-nil only by such a pass and a loop waiting with it
\* non-nil had no barrier error and has established; starting a pass and
\* failing one leave it nil; a member event is received only while it is
\* non-nil, and while it is nil the queued events stay on the channel.
C22_EventsOnlyAfterGoodPass ==
  /\ [](\A l \in Epochs :
          (pc[l] = "WAIT" /\ rchSet[l]) => ~barrierErr[l] /\ establishedLeader[l])
  /\ [][\A l \in Epochs :
          /\ (rchSet'[l] /\ ~rchSet[l]) =>
                /\ ReturnsFromReconcile(l) /\ ~last'.err
                /\ last'.visited = Cardinality(last'.given)
                /\ ~barrierErr[l] /\ establishedLeader[l]
          /\ (pc[l] = "RECONCILE" /\ pc'[l] # "RECONCILE") => ~rchSet'[l]
          /\ (ReturnsFromReconcile(l) /\ last'.err) => ~rchSet'[l]
          /\ ReceivesMember(l) => rchSet[l]]_vars
  /\ [][Len(reconcileCh') < Len(reconcileCh) =>
          \E l \in Epochs : ReceivesMember(l) /\ rchSet[l]]_vars

\* C22 witness: the barrier and establish of the loop succeeded, its
\* reconcile failed, and a member event waits on the channel the loop does
\* not listen on
C22_Witness ==
  \E l \in Epochs :
    /\ pc[l] = "WAIT" /\ ~rchSet[l]
    /\ establishedLeader[l] /\ ~barrierErr[l]
    /\ reconcileCh # <<>>

(* ------------------------- failure counter claims ----------------------- *)
\* worker w calls backoffErr in this step (from dequeueEvaluation or from
\* waitForIndex)
CallsBackoffErr(w) == ~Sleeping(w) /\ wpc'[w] \in {"sleepREQ", "sleepCHECK"}

\* waitForIndex of worker w returns nil in this step
WaitReturnsNil(w) ==
  /\ wpc[w] = "CHECK"
  /\ \/ wpc'[w] = "snapshot"
     \/ wpc'[w] = "process" /\ wplan'[w].err # "wait"

\* C24: the failure counter of a worker stays between 0 and 4, so the
\* shift 1 << (2 * failures) is by at most 8 bits (the baseline, 20 ms in
\* nanoseconds, has 25 bits, the product fits the 63 bits of a Duration)
\* and the backoff computed is at most 5120 ms; every slept interval is between 20 ms and 5 s; every backoffErr
\* call, from a dequeue retry or from wait-for-index polling, sleeps the
\* interval of the one counter and counts on it up to 4; and the counter is
\* 0 when waitForIndex returns nil.
C24_FailuresBounded ==
  /\ [](\A w \in Workers :
          /\ failures[w] \in 0..4
          /\ 2 * failures[w] <= 8 /\ 2 * failures[w] + 25 < 63
          /\ backoffOf(failures[w]) \in 20..5120
          /\ Sleeping(w) => wbackoff[w] \in 20..5000)
  /\ [][\A w \in Workers :
          /\ CallsBackoffErr(w) =>
                /\ wbackoff'[w] = IntervalOfCall(failures[w])
                /\ failures'[w] = IF failures[w] < 4 THEN failures[w] + 1 ELSE 4
          /\ WaitReturnsNil(w) => failures'[w] = 0]_vars

\* C24 witness: polling in waitForIndex, the worker has reached the cap:
\* the counter is 4 and it sleeps 5 s
C24_Witness ==
  \E w \in Workers :
    wpc[w] = "sleepCHECK" /\ failures[w] = 4 /\ wbackoff[w] = 5000

(* ---------------------------- Shutdown claims --------------------------- *)
\* C23: whatever the number and interleaving of Shutdown calls, shutdownCh
\* is closed at most once, and exactly once as soon as a call has returned;
\* the flag is set exactly when the channel is closed and never goes back;
\* raft, its store and the FSM are each torn down at most once, and once if
\* they exist and a call has returned; a call that finds the flag set
\* changes nothing; and on a server without raft no raft teardown runs.
C23_ShutdownOnce ==
  /\ [](/\ teardown.shutdownCh <= 1 /\ teardown.raft <= 1
        /\ teardown.raftStore <= 1 /\ teardown.fsm <= 1
        /\ shutdown <=> teardown.shutdownCh = 1
        /\ (\E c \in ShutdownCalls : spc[c] = "returned") =>
              /\ shutdown
              /\ teardown.raft = (IF built.raft THEN 1 ELSE 0)
              /\ teardown.fsm = (IF built.fsm THEN 1 ELSE 0)
        /\ ~built.raft => teardown.raft = 0 /\ teardown.raftStore = 0)
  /\ [][shutdown => (shutdown' /\ teardown' = teardown)]_vars

\* C23 witness: on a server whose raft was never created one call has
\* closed the channel and returned, a second call has returned without
\* effect and a third holds the lock
C23_Witness ==
  /\ ~built.raft
  /\ teardown.shutdownCh = 1
  /\ \E c, d, e \in ShutdownCalls :
       /\ c # d /\ spc[c] = "returned" /\ spc[d] = "returned"
       /\ spc[e] = "locked"

(* ----------------------------- Job.Run claims --------------------------- *)
\* Run call r decides in this step whether to execute the job
RunDecides(r) == jpc[r] = "locked" /\ jpc'[r] # "locked"

\* the stored status of the job is Running: its FinishedAt is zero
StoredRunning == stored.FinishedAtIsZero

\* C25: Run calls RunQuery exactly when the job has an agent, is not
\* disabled and is not both stored as running and under the forbid policy;
\* RunQuery is called only by a Run that decided so, and at most one
\* RunQuery of the Job object is in progress at any time.
C25_RunsExactlyWhenRunnable ==
  /\ [](Cardinality({r \in RunCalls : jpc[r] = "RunQuery"}) <= 1)
  /\ [][\A r \in RunCalls :
          /\ RunDecides(r) =>
                (jpc'[r] = "RunQuery" <=>
                   /\ job.Agent /\ ~job.Disabled
                   /\ ~(StoredRunning /\ job.Concurrency = "forbid"))
          /\ (jpc'[r] = "RunQuery" /\ jpc[r] # "RunQuery") => RunDecides(r)]_vars

\* C25 witness: a job stored as running is executed under the allow
\* policy while another Run call on it has returned
C25_Witness ==
  /\ StoredRunning /\ job.Concurrency = "allow"
  /\ \E r, q \in RunCalls : jpc[r] = "RunQuery" /\ jpc[q] = "returned"

====
